---- MODULE Spec2Model ----
(***************************************************************************)
(* State-machine model of the mandatendatabank-consumer ingestion engine:  *)
(* the POST /ingest handler, the SyncTask state machine, the delta-file    *)
(* consumption pipeline and the startup recovery, at the granularity of    *)
(* one step per awaited store update / query / download.                   *)
(*                                                                         *)
(* Timestamps are integers.  The producer publishes delta files with       *)
(* creation timestamps 1, 2, ..., published; a file is identified by its   *)
(* creation timestamp.  The wall clock read by `new Date()` when a task is *)
(* inserted is the number of files published so far.                       *)
(*                                                                         *)
(* Spec follows the service with each delta file reduced to one insert and *)
(* one delete write.  SpecFile follows a single DeltaFile through          *)
(* DeltaFile.consume and DeltaFile.ingest changeset by changeset and batch *)
(* by batch.  SpecCycle follows the timer-driven ingestion cycles.         *)
(* SpecBoot follows the service that starts with an initial sync (the      *)
(* waitForDatabase callback with runInitialSync, the jobs graph and the    *)
(* /initial-sync-jobs endpoints).  SpecFaulty is the service with one      *)
(* request at a time and store updates that can throw.                     *)
(***************************************************************************)
EXTENDS Integers, Sequences, FiniteSets, TLC

\* ---- bounds of the model ----
\* number of POST /ingest requests (handler + the execution it starts) in flight at once
MaxReq == 2
\* number of SyncTask resources ever inserted in the store
MaxTasks == 2
\* number of delta files the producer ever publishes
MaxFiles == 2
\* number of process crashes (each followed by a restart)
MaxCrashes == 1
\* number of changesets in a delta file
MaxChangeSets == 2
\* number of triples in the inserts (or the deletes) of a changeset
MaxTriples == 3
\* number of initial sync jobs ever created
MaxJobs == 2

VARIABLES
  store,      \* the triple store: sequence of SyncTask resources (index = uri)
  graph,      \* target graph content: the <<file, "ins"|"del">> writes applied
  scratch,    \* files present in /tmp (ids of delta files)
  published,  \* number of delta files the producer has published = wall clock
  proc,       \* per request slot: handler position and the in-memory SyncTask
  boot,       \* the waitForDatabase callback of the running process
  res,        \* status code of the HTTP response sent last (0: none yet)
  crashes,    \* number of crashes so far
  recorded,   \* history: largest file timestamp whose persistLatestDelta completed
  df,         \* one DeltaFile followed through consume/ingest, batch by batch
  env,        \* the configuration read from process.env
  jobsGraph,  \* the jobs graph of the store: jobs, tasks, errors
  initialSync \* runInitialSync, InitialSyncTask.execute and the cleanup handler

vars == <<store, graph, scratch, published, proc, boot, res, crashes, recorded, df,
          env, jobsGraph, initialSync>>

Slots == 1..MaxReq

\* no value (null / no binding)
None == 0 - 1

\* ---- task statuses (sync-task.js) ----
TASK_NOT_STARTED_STATUS == "notStarted"
TASK_ONGOING_STATUS == "ongoing"
TASK_SUCCESS_STATUS == "success"
TASK_FAILED_STATUS == "failed"

SeqMax(S) == CHOOSE x \in S : \A y \in S : y <= x

\* ---- delta files ----
\* DeltaFile.created, parsed with Date.parse: the file's creation timestamp
Created(f) == f

\* the files the producer lists for ?since=: those created after since, ascending
ProducerFiles(since, n) == [i \in 1..(IF n > since THEN n - since ELSE 0) |-> since + i]

\* getUnconsumedFiles: result.data.map(f => new DeltaFile(f)), in the producer's order
getUnconsumedFiles(since, n) == ProducerFiles(since, n)

\* ---- queries on the store ----
Tasks == DOMAIN store

\* SELECT ?s WHERE { ?s a ext:SyncTask ; adms:status <status> }
TasksWithStatus(st, status) == {t \in DOMAIN st : status \in st[t].status}

\* a getRunningSyncTask that never finds a task
IsRunningNever(st) == FALSE

\* a getRunningSyncTask that only looks at the first task
IsRunningFirstOnly(st) == 1 \in TasksWithStatus(st, TASK_ONGOING_STATUS)

\* getRunningSyncTask: some task with status ongoing, or none
IsRunning(st) == TasksWithStatus(st, TASK_ONGOING_STATUS) # {}

\* getNextSyncTask's query: not-started tasks ORDER BY ?created LIMIT 1
NextCandidates(st) ==
  LET ns == TasksWithStatus(st, TASK_NOT_STARTED_STATUS)
  IN {t \in ns : \A u \in ns : st[t].created <= st[u].created}

\* getLatestDeltaTimestamp: ORDER BY DESC(?latestDelta) LIMIT 1 over every task
getLatestDeltaTimestamp(st) ==
  LET all == UNION {st[t].deltaUntil : t \in DOMAIN st}
  IN IF all = {} THEN None ELSE SeqMax(all)

\* ---- the in-memory SyncTask of a request slot ----
Idle ==
  [pc |-> "idle", task |-> 0, since |-> None, latestDeltaMs |-> None,
   files |-> <<>>, handledFiles |-> 0, progressStatus |-> "notStarted",
   status |-> "none", ret |-> "none", cur |-> 0, cbFile |-> 0, cbTry |-> FALSE,
   inflight |-> FALSE, started |-> <<>>, completed |-> <<>>, failedAt |-> 0]

\* new SyncTask({uri, status, since, created})
NewSyncTask(t, since) ==
  [Idle EXCEPT !.task = t, !.since = since, !.latestDeltaMs = since,
               !.status = TASK_NOT_STARTED_STATUS]

\* ---- SyncTask: the synchronous parts between two awaits ----
\* totalFiles
totalFiles(p) == Len(p.files)

\* the end of an execution chain: the slot is free again
Finished(p) == Idle

\* after a callback returned: the download consumeNext started is still awaited,
\* or nothing is left to do
Resume(p) ==
  IF p.inflight THEN [p EXCEPT !.pc = "download", !.inflight = FALSE]
  ELSE Finished(p)

\* a consumeNext that walks the file list from its end
consumeNextBackwards(p, sc) ==
  LET f == p.files[totalFiles(p) - p.handledFiles]
  IN [p |-> [p EXCEPT !.cur = p.handledFiles + 1, !.inflight = TRUE,
                      !.started = Append(@, f)],
      sc |-> sc \cup {f}]

\* consumeNext: file = this.files[this.handledFiles]; file.consume(callback)
\* DeltaFile.consume opens the write stream on tmpFilepath and starts the
\* request; it returns without waiting for the download
consumeNext(p, sc) ==
  LET f == p.files[p.handledFiles + 1]
  IN [p |-> [p EXCEPT !.cur = p.handledFiles + 1, !.inflight = TRUE,
                      !.started = Append(@, f)],
      sc |-> sc \cup {f}]

\* DeltaFile.ingest after `await onFinishCallback(this, true)`: fs.unlink follows;
\* a callback called from a catch block or from the download error handler is
\* followed by nothing
AfterCallback(p) ==
  IF p.cbTry THEN [p EXCEPT !.pc = "unlink"] ELSE Resume(p)

\* consumeNext's callback: the test that decides to consume the next file
ShouldContinue(p) ==
  p.progressStatus = "progressing" /\ p.handledFiles < totalFiles(p)

\* the status consumeNext's callback persists when it stops
ClosingStatus(p) ==
  IF p.progressStatus = "failed" THEN TASK_FAILED_STATUS ELSE TASK_SUCCESS_STATUS

\* consumeNext's callback after `await this.updateProgressStatus(file, isSuccess)`
CallbackTail(p, sc) ==
  IF ShouldContinue(p)
  THEN LET n == consumeNext(p, sc)
       IN [p |-> AfterCallback(n.p), sc |-> n.sc]
  ELSE [p |-> [p EXCEPT !.status = ClosingStatus(p), !.pc = "stDel", !.ret = "cbReturn"],
        sc |-> sc]

\* an updateProgressStatus that never writes the watermark
MovesWatermarkNever(p, f, isSuccess) == FALSE

\* updateProgressStatus: does the file move the watermark
MovesWatermark(p, f, isSuccess) ==
  isSuccess /\ p.progressStatus # "failed" /\ Created(f) > p.latestDeltaMs

\* updateProgressStatus: the new progressStatus
NewProgressStatus(p, isSuccess) ==
  IF isSuccess /\ p.progressStatus # "failed" THEN "progressing"
  ELSE IF ~isSuccess THEN "failed"
  ELSE p.progressStatus

\* the callback given to file.consume, up to its first await:
\* handledFiles++, updateProgressStatus (persistLatestDelta sets latestDeltaMs
\* before its first update)
Callback(p, sc, f, isSuccess, fromTry) ==
  LET p1 == [p EXCEPT !.handledFiles = @ + 1, !.cbFile = f, !.cbTry = fromTry,
                      !.progressStatus = NewProgressStatus(p, isSuccess)]
  IN IF MovesWatermark(p, f, isSuccess)
     THEN [p |-> [p1 EXCEPT !.latestDeltaMs = Created(f), !.pc = "wmDel",
                            !.ret = "cbContinue"],
           sc |-> sc]
     ELSE CallbackTail(p1, sc)

\* a failure of the file in the pipeline (download, read/parse or write):
\* onFinishCallback(this, false)
FileFailed(p, sc) ==
  Callback([p EXCEPT !.failedAt = IF @ = 0 THEN p.cur ELSE @], sc,
           p.files[p.cur], FALSE, FALSE)

\* an execute that goes straight to success when there is no file
ExecuteBodyNoWatermark(p, sc) ==
  IF totalFiles(p) > 0
  THEN LET n == consumeNext(p, sc)
       IN [p |-> Resume(n.p), sc |-> n.sc]
  ELSE [p |-> [p EXCEPT !.status = TASK_SUCCESS_STATUS, !.pc = "stDel",
                        !.ret = "executeEnd"], sc |-> sc]

\* execute after `await this.persistStatus(TASK_ONGOING_STATUS)`
ExecuteBody(p, sc) ==
  IF totalFiles(p) > 0
  THEN LET n == consumeNext(p, sc)
       IN [p |-> Resume(n.p), sc |-> n.sc]
  ELSE [p |-> [p EXCEPT !.pc = "wmDel", !.ret = "executeSuccess"], sc |-> sc]

\* what follows a completed persistStatus
AfterPersistStatus(p, sc) ==
  CASE p.ret = "executeBody" -> ExecuteBody(p, sc)
    [] p.ret = "cbReturn" -> [p |-> AfterCallback(p), sc |-> sc]
    [] OTHER -> [p |-> Finished(p), sc |-> sc]

\* what follows a completed persistLatestDelta
AfterPersistLatestDelta(p, sc) ==
  CASE p.ret = "cbContinue" -> CallbackTail(p, sc)
    [] p.ret = "executeSuccess" ->
         [p |-> [p EXCEPT !.status = TASK_SUCCESS_STATUS, !.pc = "stDel",
                          !.ret = "executeEnd"], sc |-> sc]
    [] OTHER ->
         [p |-> [p EXCEPT !.status = TASK_FAILED_STATUS, !.pc = "stDel",
                          !.ret = "closeEnd"], sc |-> sc]

\* ---- the store ----
\* the resource scheduleSyncTask inserts (hist: the statuses inserted so far, a history)
NewTaskResource(now) ==
  [created |-> now, status |-> {TASK_NOT_STARTED_STATUS}, deltaUntil |-> {},
   hist |-> <<TASK_NOT_STARTED_STATUS>>]

\* persistStatus, first update: DELETE WHERE { <uri> adms:status ?status }
DeleteStatus(st, t) == [st EXCEPT ![t].status = {}]

\* persistStatus, second update: INSERT { <uri> adms:status <status> }
InsertStatus(st, t, status) ==
  [st EXCEPT ![t].status = @ \cup {status},
             ![t].hist = IF @[Len(@)] = status THEN @ ELSE Append(@, status)]

\* persistLatestDelta, first update: DELETE WHERE { <uri> ext:deltaUntil ?latestDelta }
DeleteLatestDelta(st, t) == [st EXCEPT ![t].deltaUntil = {}]

\* persistLatestDelta, second update: INSERT { <uri> ext:deltaUntil latestDelta }
InsertLatestDelta(st, t, deltaMs) == [st EXCEPT ![t].deltaUntil = @ \cup {deltaMs}]

\* setTaskFailedStatus(uri): forcibly persist status failed
setTaskFailedStatus(st, t) ==
  [st EXCEPT ![t].status = {TASK_FAILED_STATUS},
             ![t].hist = IF @[Len(@)] = TASK_FAILED_STATUS THEN @
                         ELSE Append(@, TASK_FAILED_STATUS)]

\* a getNextSyncTask that does not look at START_FROM_DELTA_TIMESTAMP
SinceFallbackCreated(st, t) == st[t].created

\* getNextSyncTask when no ext:deltaUntil is found: START_FROM_DELTA_TIMESTAMP when
\* it is set, else the creation time of the task
SinceFallback(st, t) ==
  IF env.START_FROM_DELTA_TIMESTAMP # None THEN env.START_FROM_DELTA_TIMESTAMP
  ELSE st[t].created

\* getNextSyncTask: the `since` of the selected task
SinceOf(st, t) ==
  IF getLatestDeltaTimestamp(st) # None THEN getLatestDeltaTimestamp(st)
  ELSE SinceFallback(st, t)

\* no DeltaFile is followed batch by batch
NoFile == [pc |-> "none"]

\* the configuration of a service without initial sync and without a start
\* timestamp (statusLabels: see StatusLabels)
NoEnv ==
  [DISABLE_INITIAL_SYNC |-> TRUE, DISABLE_DELTA_INGEST |-> FALSE,
   START_FROM_DELTA_TIMESTAMP |-> None, statusLabels |-> "uri"]

\* an empty jobs graph (made: the number of jobs created so far, the source of
\* fresh uuids)
NoJobs == [jobs |-> {}, tasks |-> {}, links |-> {}, errors |-> <<>>, made |-> 0]

\* no initial sync is running, none has loaded a dump, no cleanup is running
NoInitialSync ==
  [run |-> [pc |-> "idle", job |-> 0, caller |-> "none", noDump |-> FALSE,
            error |-> "none"],
   exec |-> [pc |-> "none", task |-> 0],
   clean |-> [pc |-> "idle", todo |-> <<>>],
   loaded |-> FALSE]

Init ==
  /\ store = <<>>
  /\ graph = {}
  /\ scratch = {}
  /\ published = 0
  /\ proc = [r \in Slots |-> Idle]
  /\ boot = [pc |-> "query", task |-> 0]
  /\ res = 0
  /\ crashes = 0
  /\ recorded = None
  /\ df = NoFile
  /\ env = NoEnv
  /\ jobsGraph = NoJobs
  /\ initialSync = NoInitialSync

\* ---- POST /ingest ----
\* a request arrives (timer-triggered or manual) and takes the lowest free slot
Request(r) ==
  /\ proc[r].pc = "idle"
  /\ \A q \in Slots : q < r => proc[q].pc # "idle"
  /\ Len(store) + Cardinality({q \in Slots : proc[q].pc \in {"schedQuery", "schedInsert"}})
       < MaxTasks
  /\ proc' = [proc EXCEPT ![r].pc = "schedQuery"]
  /\ UNCHANGED <<env, jobsGraph, initialSync, df, store, graph, scratch, published, boot, res, crashes, recorded>>

\* a scheduleSyncTask that inserts a task whatever its SELECT finds
SchedQueryAlways(r) ==
  /\ proc[r].pc = "schedQuery"
  /\ proc' = [proc EXCEPT ![r].pc = "schedInsert"]
  /\ UNCHANGED <<env, jobsGraph, initialSync, df, store, graph, scratch, published, boot, res, crashes, recorded>>

\* scheduleSyncTask: the SELECT of a not-started task
SchedQuery(r) ==
  /\ proc[r].pc = "schedQuery"
  /\ proc' = [proc EXCEPT ![r].pc =
                IF TasksWithStatus(store, TASK_NOT_STARTED_STATUS) # {}
                THEN "getRunning" ELSE "schedInsert"]
  /\ UNCHANGED <<env, jobsGraph, initialSync, df, store, graph, scratch, published, boot, res, crashes, recorded>>

\* scheduleSyncTask: the INSERT DATA of a new task
SchedInsert(r) ==
  /\ proc[r].pc = "schedInsert"
  /\ Len(store) < MaxTasks
  /\ store' = Append(store, NewTaskResource(published))
  /\ proc' = [proc EXCEPT ![r].pc = "getRunning"]
  /\ UNCHANGED <<env, jobsGraph, initialSync, df, graph, scratch, published, boot, res, crashes, recorded>>

\* const isRunning = await getRunningSyncTask(); 409 when one is running
GetRunning(r) ==
  /\ proc[r].pc = "getRunning"
  /\ IF IsRunning(store)
     THEN proc' = [proc EXCEPT ![r] = Idle] /\ res' = 409
     ELSE proc' = [proc EXCEPT ![r].pc = "getNext"] /\ res' = res
  /\ UNCHANGED <<env, jobsGraph, initialSync, df, store, graph, scratch, published, boot, crashes, recorded>>

\* getNextSyncTask: the SELECT of the earliest not-started task; 200 when none
GetNext(r) ==
  /\ proc[r].pc = "getNext"
  /\ IF NextCandidates(store) = {}
     THEN proc' = [proc EXCEPT ![r] = Idle] /\ res' = 200
     ELSE /\ \E t \in NextCandidates(store) :
               proc' = [proc EXCEPT ![r] = [Idle EXCEPT !.pc = "getLatest", !.task = t]]
          /\ res' = res
  /\ UNCHANGED <<env, jobsGraph, initialSync, df, store, graph, scratch, published, boot, crashes, recorded>>

\* getNextSyncTask: getLatestDeltaTimestamp and new SyncTask(...)
GetLatest(r) ==
  /\ proc[r].pc = "getLatest"
  /\ proc' = [proc EXCEPT ![r] =
                [NewSyncTask(proc[r].task, SinceOf(store, proc[r].task))
                   EXCEPT !.pc = "listFiles"]]
  /\ UNCHANGED <<env, jobsGraph, initialSync, df, store, graph, scratch, published, boot, res, crashes, recorded>>

\* getUnconsumedFiles(task.since); task.execute() and 202, or closeWithFailure
ListFiles(r) ==
  /\ proc[r].pc = "listFiles"
  /\ \E ok \in BOOLEAN :
       IF ok
       THEN /\ proc' = [proc EXCEPT ![r] =
                          [@ EXCEPT !.files = getUnconsumedFiles(proc[r].since, published),
                                    !.status = TASK_ONGOING_STATUS,
                                    !.pc = "stDel", !.ret = "executeBody"]]
            /\ res' = 202
       ELSE /\ proc' = [proc EXCEPT ![r] = [@ EXCEPT !.pc = "wmDel", !.ret = "closeFailure"]]
            /\ res' = res
  /\ UNCHANGED <<env, jobsGraph, initialSync, df, store, graph, scratch, published, boot, crashes, recorded>>

\* ---- SyncTask.persistStatus / persistLatestDelta ----
StatusDelete(r) ==
  /\ proc[r].pc = "stDel"
  /\ store' = DeleteStatus(store, proc[r].task)
  /\ proc' = [proc EXCEPT ![r].pc = "stIns"]
  /\ UNCHANGED <<env, jobsGraph, initialSync, df, graph, scratch, published, boot, res, crashes, recorded>>

StatusInsert(r) ==
  /\ proc[r].pc = "stIns"
  /\ store' = InsertStatus(store, proc[r].task, proc[r].status)
  /\ LET n == AfterPersistStatus(proc[r], scratch)
     IN proc' = [proc EXCEPT ![r] = n.p] /\ scratch' = n.sc
  /\ res' = IF proc[r].ret = "closeEnd" THEN 500 ELSE res
  /\ UNCHANGED <<env, jobsGraph, initialSync, df, graph, published, boot, crashes, recorded>>

WatermarkDelete(r) ==
  /\ proc[r].pc = "wmDel"
  /\ store' = DeleteLatestDelta(store, proc[r].task)
  /\ proc' = [proc EXCEPT ![r].pc = "wmIns"]
  /\ UNCHANGED <<env, jobsGraph, initialSync, df, graph, scratch, published, boot, res, crashes, recorded>>

WatermarkInsert(r) ==
  /\ proc[r].pc = "wmIns"
  /\ store' = InsertLatestDelta(store, proc[r].task, proc[r].latestDeltaMs)
  /\ recorded' = IF proc[r].ret = "cbContinue" /\ proc[r].latestDeltaMs > recorded
                 THEN proc[r].latestDeltaMs ELSE recorded
  /\ LET n == AfterPersistLatestDelta(proc[r], scratch)
     IN proc' = [proc EXCEPT ![r] = n.p] /\ scratch' = n.sc
  /\ UNCHANGED <<env, jobsGraph, initialSync, df, graph, published, boot, res, crashes>>

\* ---- DeltaFile.consume / DeltaFile.ingest ----
\* the download ends with 'error' of the request (the callback is called with
\* failure), or with 'finish' of the write stream: ingest starts and reads the
\* file with fs.readJson, which throws when the content is not JSON
Download(r) ==
  /\ proc[r].pc = "download"
  /\ \E ok \in BOOLEAN :
       IF ok
       THEN proc' = [proc EXCEPT ![r].pc = "ins"] /\ scratch' = scratch
       ELSE LET n == FileFailed(proc[r], scratch)
            IN proc' = [proc EXCEPT ![r] = n.p] /\ scratch' = n.sc
  /\ UNCHANGED <<env, jobsGraph, initialSync, df, store, graph, published, boot, res, crashes, recorded>>

\* await insertTriples(inserts)
InsertTriples(r) ==
  /\ proc[r].pc = "ins"
  /\ \E ok \in BOOLEAN :
       IF ok
       THEN /\ graph' = graph \cup {<<proc[r].files[proc[r].cur], "ins">>}
            /\ proc' = [proc EXCEPT ![r].pc = "del"]
            /\ scratch' = scratch
       ELSE /\ graph' = graph
            /\ LET n == FileFailed(proc[r], scratch)
               IN proc' = [proc EXCEPT ![r] = n.p] /\ scratch' = n.sc
  /\ UNCHANGED <<env, jobsGraph, initialSync, df, store, published, boot, res, crashes, recorded>>

\* await deleteTriples(deletes); then await onFinishCallback(this, true)
DeleteTriples(r) ==
  /\ proc[r].pc = "del"
  /\ \E ok \in BOOLEAN :
       IF ok
       THEN /\ graph' = graph \cup {<<proc[r].files[proc[r].cur], "del">>}
            /\ LET f == proc[r].files[proc[r].cur]
                   n == Callback([proc[r] EXCEPT !.completed = Append(@, f)],
                                 scratch, f, TRUE, TRUE)
               IN proc' = [proc EXCEPT ![r] = n.p] /\ scratch' = n.sc
       ELSE /\ graph' = graph
            /\ LET n == FileFailed(proc[r], scratch)
               IN proc' = [proc EXCEPT ![r] = n.p] /\ scratch' = n.sc
  /\ UNCHANGED <<env, jobsGraph, initialSync, df, store, published, boot, res, crashes, recorded>>

\* await fs.unlink(tmpFilepath); when it throws, the catch block calls
\* onFinishCallback(this, false)
Unlink(r) ==
  /\ proc[r].pc = "unlink"
  /\ IF proc[r].cbFile \in scratch
     THEN /\ scratch' = scratch \ {proc[r].cbFile}
          /\ proc' = [proc EXCEPT ![r] = Resume(@)]
     ELSE LET n == Callback(proc[r], scratch, proc[r].cbFile, FALSE, FALSE)
          IN proc' = [proc EXCEPT ![r] = n.p] /\ scratch' = n.sc
  /\ UNCHANGED <<env, jobsGraph, initialSync, df, store, graph, published, boot, res, crashes, recorded>>

\* ---- the producer ----
Publish ==
  /\ published < MaxFiles
  /\ published' = published + 1
  /\ UNCHANGED <<env, jobsGraph, initialSync, df, store, graph, scratch, proc, boot, res, crashes, recorded>>

\* ---- startup: the waitForDatabase callback ----
\* const runningTask = await getRunningSyncTask()
BootQuery ==
  /\ boot.pc = "query"
  /\ IF IsRunning(store)
     THEN \E t \in TasksWithStatus(store, TASK_ONGOING_STATUS) :
            boot' = [pc |-> "setFailed", task |-> t]
     ELSE boot' = [pc |-> "done", task |-> 0]
  /\ UNCHANGED <<env, jobsGraph, initialSync, df, store, graph, scratch, published, proc, res, crashes, recorded>>

\* await setTaskFailedStatus(runningTask.uri.value); triggerIngest()
BootSetFailed ==
  /\ boot.pc = "setFailed"
  /\ store' = setTaskFailedStatus(store, boot.task)
  /\ boot' = [pc |-> "done", task |-> boot.task]
  /\ UNCHANGED <<env, jobsGraph, initialSync, df, graph, scratch, published, proc, res, crashes, recorded>>

\* ---- the process dies and is started again: the memory is lost, the store,
\* the producer and /tmp are kept ----
Crash ==
  /\ crashes < MaxCrashes
  /\ crashes' = crashes + 1
  /\ proc' = [r \in Slots |-> Idle]
  /\ boot' = [pc |-> "query", task |-> 0]
  /\ UNCHANGED <<env, jobsGraph, initialSync, df, store, graph, scratch, published, res, recorded>>

Next ==
  \/ \E r \in Slots : Request(r)
  \/ \E r \in Slots : SchedQuery(r)
  \/ \E r \in Slots : SchedInsert(r)
  \/ \E r \in Slots : GetRunning(r)
  \/ \E r \in Slots : GetNext(r)
  \/ \E r \in Slots : GetLatest(r)
  \/ \E r \in Slots : ListFiles(r)
  \/ \E r \in Slots : StatusDelete(r)
  \/ \E r \in Slots : StatusInsert(r)
  \/ \E r \in Slots : WatermarkDelete(r)
  \/ \E r \in Slots : WatermarkInsert(r)
  \/ \E r \in Slots : Download(r)
  \/ \E r \in Slots : InsertTriples(r)
  \/ \E r \in Slots : DeleteTriples(r)
  \/ \E r \in Slots : Unlink(r)
  \/ Publish
  \/ BootQuery
  \/ BootSetFailed
  \/ Crash

Spec == Init /\ [][Next]_vars

\* the same program with one request at a time: a request arrives only when the
\* execution started by the previous one has ended (or the process has crashed)
NextSerial ==
  \/ \E r \in {1} :
        \/ Request(r) \/ SchedQuery(r) \/ SchedInsert(r) \/ GetRunning(r)
        \/ GetNext(r) \/ GetLatest(r) \/ ListFiles(r)
        \/ StatusDelete(r) \/ StatusInsert(r)
        \/ WatermarkDelete(r) \/ WatermarkInsert(r)
        \/ Download(r) \/ InsertTriples(r) \/ DeleteTriples(r) \/ Unlink(r)
  \/ Publish
  \/ BootQuery
  \/ BootSetFailed
  \/ Crash

SpecSerial == Init /\ [][NextSerial]_vars

\* ---- the service with a store that can reject an update ----
\* where the rejection of an awaited update of persistStatus / persistLatestDelta
\* ends up: inside the callback of consumeNext it leaves the callback; when the
\* callback was awaited in the try block of DeltaFile.ingest its catch block calls
\* onFinishCallback(this, false), else nobody holds the rejected promise.  Inside
\* execute the catch block logs it, inside closeWithFailure the request handler
\* is rejected: the chain ends
AfterUpdateThrows(p, sc) ==
  CASE p.ret \in {"cbContinue", "cbReturn"} ->
         IF p.cbTry
         THEN Callback([p EXCEPT !.failedAt = IF @ = 0 THEN p.cur ELSE @], sc,
                       p.cbFile, FALSE, FALSE)
         ELSE [p |-> Resume(p), sc |-> sc]
    [] OTHER -> [p |-> Finished(p), sc |-> sc]

\* `await update(...)` of persistStatus or persistLatestDelta rejects (the store
\* is down or answers with an error): nothing is written
UpdateThrows(r) ==
  /\ proc[r].pc \in {"stDel", "stIns", "wmDel", "wmIns"}
  /\ LET n == AfterUpdateThrows(proc[r], scratch)
     IN proc' = [proc EXCEPT ![r] = n.p] /\ scratch' = n.sc
  /\ UNCHANGED <<env, jobsGraph, initialSync, df, store, graph, published, boot, res,
                 crashes, recorded>>

\* the steps of the request in the slot, once it has arrived
HandlerSteps ==
  \E r \in {1} :
     \/ SchedQuery(r) \/ SchedInsert(r) \/ GetRunning(r)
     \/ GetNext(r) \/ GetLatest(r) \/ ListFiles(r)
     \/ StatusDelete(r) \/ StatusInsert(r)
     \/ WatermarkDelete(r) \/ WatermarkInsert(r)
     \/ Download(r) \/ InsertTriples(r) \/ DeleteTriples(r) \/ Unlink(r)

NextFaulty ==
  \/ \E r \in {1} : Request(r)
  \/ HandlerSteps
  \/ \E r \in {1} : UpdateThrows(r)
  \/ Publish
  \/ BootQuery
  \/ BootSetFailed
  \/ Crash

\* every awaited query, update and download comes to an end; requests, new
\* delta files, rejected updates and crashes are never forced
FairFaulty == WF_vars(HandlerSteps) /\ WF_vars(BootQuery \/ BootSetFailed)

SpecFaulty == Init /\ [][NextFaulty]_vars /\ FairFaulty

\* ---- the ingestion cycles (triggerIngest) ----
\* the timer started at the end of the waitForDatabase callback posts to /ingest
\* every INGEST_INTERVAL; the request takes the lowest free slot.  A cycle that
\* finds a not-started task inserts no task, so it does not count against MaxTasks.
triggerIngest(r) ==
  /\ boot.pc = "done"
  /\ proc[r].pc = "idle"
  /\ \A q \in Slots : q < r => proc[q].pc # "idle"
  /\ \/ Len(store) + Cardinality({q \in Slots : proc[q].pc \in {"schedQuery", "schedInsert"}})
          < MaxTasks
     \/ TasksWithStatus(store, TASK_NOT_STARTED_STATUS) # {}
  /\ proc' = [proc EXCEPT ![r].pc = "schedQuery"]
  /\ UNCHANGED <<env, jobsGraph, initialSync, df, store, graph, scratch, published, boot, res, crashes, recorded>>

\* the service driven by its timer alone, facing a producer that has published
\* nothing: every task has an empty file list
NextCycle ==
  \/ \E r \in Slots : triggerIngest(r)
  \/ \E r \in Slots : SchedQuery(r)
  \/ \E r \in Slots : SchedInsert(r)
  \/ \E r \in Slots : GetRunning(r)
  \/ \E r \in Slots : GetNext(r)
  \/ \E r \in Slots : GetLatest(r)
  \/ \E r \in Slots : ListFiles(r)
  \/ \E r \in Slots : StatusDelete(r)
  \/ \E r \in Slots : StatusInsert(r)
  \/ \E r \in Slots : WatermarkDelete(r)
  \/ \E r \in Slots : WatermarkInsert(r)
  \/ BootQuery
  \/ BootSetFailed
  \/ Crash

\* every awaited query, update and listing eventually returns and the timer keeps
\* firing; a crash is never forced
FairCycle ==
  /\ \A r \in Slots :
       /\ WF_vars(triggerIngest(r))
       /\ WF_vars(SchedQuery(r)) /\ WF_vars(SchedInsert(r))
       /\ WF_vars(GetRunning(r)) /\ WF_vars(GetNext(r)) /\ WF_vars(GetLatest(r))
       /\ WF_vars(ListFiles(r))
       /\ WF_vars(StatusDelete(r)) /\ WF_vars(StatusInsert(r))
       /\ WF_vars(WatermarkDelete(r)) /\ WF_vars(WatermarkInsert(r))
  /\ WF_vars(BootQuery) /\ WF_vars(BootSetFailed)

SpecCycle == Init /\ [][NextCycle]_vars /\ FairCycle

\* ---- the jobs graph (initial-sync-job.js, initial-sync-task.js, utils.js) ----
STATUS_SCHEDULED == "JobStatus/scheduled"
STATUS_BUSY == "JobStatus/busy"
STATUS_FAILED == "JobStatus/failed"
STATUS_SUCCESS == "JobStatus/success"

\* getLatestDumpFile: throw 'No dataset was found at the producing endpoint.'
NoDatasetMessage == "No dataset was found at the producing endpoint."

\* the message of the error a failing createSyncTask throws
GlueMessage == "createSyncTask failed"

\* waitForDatabase callback: `Unexpected error while booting the service: ${e}`
BootMessage == "Unexpected error while booting the service"

\* the value of START_FROM_DELTA_TIMESTAMP when it is set
StartFrom == MaxFiles - 1

\* the time at which the producer issued its dump
DumpIssued == MaxFiles

\* createJob: INSERT DATA of a job with a fresh uuid and status busy
createJob(jg) ==
  [jg EXCEPT !.jobs = @ \cup {[id |-> jg.made + 1, status |-> STATUS_BUSY]},
             !.made = @ + 1]

\* scheduleTask: INSERT DATA of a task with status scheduled, dct:isPartOf the job
\* (one task per job: the task takes the number of its job)
scheduleTask(jg, job) ==
  [jg EXCEPT !.tasks = @ \cup {[id |-> job, job |-> job, status |-> STATUS_SCHEDULED]}]

\* updateStatus: DELETE / INSERT of adms:status WHERE the resource has a status
\* (nothing happens when the resource is gone)
updateStatus(resources, id, status) ==
  {IF x.id = id THEN [x EXCEPT !.status = status] ELSE x : x \in resources}

\* utils.storeError: INSERT DATA of an error with its message
storeError(jg, msg) == [jg EXCEPT !.errors = Append(@, [message |-> msg])]

\* InitialSyncTask.storeError: the error and the triple <task> task:error <error>
storeTaskError(jg, task, msg) ==
  [jg EXCEPT !.errors = Append(@, [message |-> msg]),
             !.links = @ \cup {<<task, Len(jg.errors) + 1>>}]

\* a cleanup that deletes the triples of the job only
cleanupJobOnly(jg, job) == [jg EXCEPT !.jobs = {j \in @ : j.id # job}]

\* cleanupJobs, one job: DELETE of every triple whose subject is the job or a
\* task that is dct:isPartOf the job (the task:error triples of such a task are
\* triples of the task)
cleanupJob(jg, job) ==
  LET gone == {t.id : t \in {u \in jg.tasks : u.job = job}}
  IN [jg EXCEPT !.jobs = {j \in @ : j.id # job},
                !.tasks = {t \in @ : t.job # job},
                !.links = {l \in @ : l[1] \notin gone}]

\* getJobs(INITIAL_SYNC_JOB_OPERATION): the jobs of the operation that have a status
getJobs(jg) == {j.id : j \in jg.jobs}

\* the elements of a finite set of numbers, in ascending order
RECURSIVE Ascending(_)
Ascending(S) ==
  IF S = {} THEN <<>>
  ELSE LET m == CHOOSE x \in S : \A y \in S : x <= y
       IN <<m>> \o Ascending(S \ {m})

\* what ?status of `adms:status/skos:prefLabel ?status` is bound to: the store
\* holds no label for the status concepts ("none": the pattern matches nothing),
\* or the label of a concept is its uri ("uri"), or it is some other text ("text")
StatusLabels == {"none", "uri", "text"}

StatusLabel(status) == IF env.statusLabels = "uri" THEN status ELSE "a label"

\* no job (null)
NoJob == [id |-> 0, status |-> "none"]

\* getLatestInitialSyncJob: ORDER BY DESC(?created) LIMIT 1
getLatestInitialSyncJob(jg) ==
  IF jg.jobs = {} \/ env.statusLabels = "none" THEN NoJob
  ELSE LET j == CHOOSE x \in jg.jobs : \A y \in jg.jobs : y.id <= x.id
       IN [id |-> j.id, status |-> StatusLabel(j.status)]

\* createSyncTask(since, status): a SyncTask resource with the given status and
\* since as its ext:deltaUntil
createSyncTask(since, status, now) ==
  [created |-> now, status |-> {status}, deltaUntil |-> {since}, hist |-> <<status>>]

\* ---- startup with initial sync: the waitForDatabase callback ----
\* the callback after the initial-sync part: getRunningSyncTask comes next, unless
\* DISABLE_DELTA_INGEST
AfterInitialSync ==
  IF env.DISABLE_DELTA_INGEST THEN [pc |-> "disabled", task |-> 0]
  ELSE [pc |-> "query", task |-> 0]

\* runInitialSync is called
StartRun(caller) ==
  [pc |-> "createJob", job |-> 0, caller |-> caller, noDump |-> FALSE, error |-> "none"]

\* a runInitialSync that takes a missing dump for nothing to do
NoDumpIgnored(run) == [run EXCEPT !.pc = "jobSuccess", !.noDump = TRUE]

\* getLatestDumpFile throws for a producer without dataset: the catch block of
\* runInitialSync is entered
NoDump(run) == [run EXCEPT !.pc = "closeTask", !.noDump = TRUE, !.error = NoDatasetMessage]

\* what runInitialSync's caller does when it returns: the waitForDatabase callback
\* reads job.uri (a TypeError when runInitialSync returned null, caught by its
\* catch block); POST /initial-sync-jobs does not wait for it
Returned(b, caller, job) ==
  IF caller # "boot" THEN b
  ELSE IF job = 0 THEN [pc |-> "storeError", task |-> 0]
  ELSE AfterInitialSync

\* const initialSyncJob = await getLatestInitialSyncJob(), and the branch taken
BootGetJob ==
  /\ boot.pc = "getJob"
  /\ IF env.DISABLE_INITIAL_SYNC
     THEN boot' = AfterInitialSync /\ initialSync' = initialSync
     ELSE LET job == getLatestInitialSyncJob(jobsGraph)
          IN IF job = NoJob \/ job.status = STATUS_FAILED
             THEN /\ boot' = [pc |-> "runInitialSync", task |-> 0]
                  /\ initialSync' = [initialSync EXCEPT !.run = StartRun("boot")]
             ELSE IF job.status # STATUS_SUCCESS
             THEN boot' = [pc |-> "storeError", task |-> 0] /\ initialSync' = initialSync
             ELSE boot' = AfterInitialSync /\ initialSync' = initialSync
  /\ UNCHANGED <<store, graph, scratch, published, proc, res, crashes, recorded, df,
                 env, jobsGraph>>

\* catch (e): await storeError(`Unexpected error while booting the service: ${e}`);
\* triggerIngest is not called
BootStoreError ==
  /\ boot.pc = "storeError"
  /\ jobsGraph' = storeError(jobsGraph, BootMessage)
  /\ boot' = [pc |-> "failed", task |-> 0]
  /\ UNCHANGED <<store, graph, scratch, published, proc, res, crashes, recorded, df,
                 env, initialSync>>

\* ---- runInitialSync ----
\* job = await scheduleInitialSyncJob()
RunCreateJob ==
  /\ initialSync.run.pc = "createJob"
  /\ jobsGraph.made < MaxJobs
  /\ jobsGraph' = createJob(jobsGraph)
  /\ initialSync' = [initialSync EXCEPT !.run.pc = "scheduleTask",
                                        !.run.job = jobsGraph.made + 1]
  /\ UNCHANGED <<store, graph, scratch, published, proc, boot, res, crashes, recorded,
                 df, env>>

\* task = await scheduleInitialSyncTask(job)
RunScheduleTask ==
  /\ initialSync.run.pc = "scheduleTask"
  /\ jobsGraph' = scheduleTask(jobsGraph, initialSync.run.job)
  /\ initialSync' = [initialSync EXCEPT !.run.pc = "getDump"]
  /\ UNCHANGED <<store, graph, scratch, published, proc, boot, res, crashes, recorded,
                 df, env>>

\* const dumpFile = await getLatestDumpFile(); task.dumpFile = dumpFile;
\* task.execute() (not awaited: execute runs up to its first await, the update of
\* updateStatus(STATUS_BUSY)), or the catch block when there is no dump
RunGetDump ==
  /\ initialSync.run.pc = "getDump"
  /\ \E found \in BOOLEAN :
       initialSync' =
         IF found
         THEN [initialSync EXCEPT !.run.pc = "createSyncTask",
                                  !.exec = [pc |-> "busy", task |-> initialSync.run.job]]
         ELSE [initialSync EXCEPT !.run = NoDump(@)]
  /\ UNCHANGED <<store, graph, scratch, published, proc, boot, res, crashes, recorded,
                 df, env, jobsGraph>>

\* await createSyncTask(task.dumpFile.issued, TASK_SUCCESS_STATUS): the SyncTask is
\* inserted, or the call throws
RunCreateSyncTask ==
  /\ initialSync.run.pc = "createSyncTask"
  /\ \E ok \in BOOLEAN :
       IF ok
       THEN /\ store' = Append(store, createSyncTask(DumpIssued, TASK_SUCCESS_STATUS,
                                                     published))
            /\ initialSync' = [initialSync EXCEPT !.run.pc = "jobSuccess"]
       ELSE /\ store' = store
            /\ initialSync' = [initialSync EXCEPT !.run.pc = "closeTask",
                                                  !.run.error = GlueMessage]
  /\ UNCHANGED <<graph, scratch, published, proc, boot, res, crashes, recorded, df,
                 env, jobsGraph>>

\* await job.updateStatus(STATUS_SUCCESS); return job
RunJobSuccess ==
  /\ initialSync.run.pc = "jobSuccess"
  /\ jobsGraph' = [jobsGraph EXCEPT
                     !.jobs = updateStatus(@, initialSync.run.job, STATUS_SUCCESS)]
  /\ initialSync' = [initialSync EXCEPT !.run.pc = "returned"]
  /\ boot' = Returned(boot, initialSync.run.caller, initialSync.run.job)
  /\ UNCHANGED <<store, graph, scratch, published, proc, res, crashes, recorded, df,
                 env>>

\* catch (e): task.closeWithFailure(e): await this.updateStatus(STATUS_FAILED)
RunCloseTask ==
  /\ initialSync.run.pc = "closeTask"
  /\ jobsGraph' = [jobsGraph EXCEPT
                     !.tasks = updateStatus(@, initialSync.run.job, STATUS_FAILED)]
  /\ initialSync' = [initialSync EXCEPT !.run.pc = "storeError"]
  /\ UNCHANGED <<store, graph, scratch, published, proc, boot, res, crashes, recorded,
                 df, env>>

\* task.closeWithFailure(e): await this.storeError(error.message || error)
RunStoreError ==
  /\ initialSync.run.pc = "storeError"
  /\ jobsGraph' = storeTaskError(jobsGraph, initialSync.run.job, initialSync.run.error)
  /\ initialSync' = [initialSync EXCEPT !.run.pc = "closeJob"]
  /\ UNCHANGED <<store, graph, scratch, published, proc, boot, res, crashes, recorded,
                 df, env>>

\* await job.closeWithFailure(); return null
RunCloseJob ==
  /\ initialSync.run.pc = "closeJob"
  /\ jobsGraph' = [jobsGraph EXCEPT
                     !.jobs = updateStatus(@, initialSync.run.job, STATUS_FAILED)]
  /\ initialSync' = [initialSync EXCEPT !.run.pc = "returned"]
  /\ boot' = Returned(boot, initialSync.run.caller, 0)
  /\ UNCHANGED <<store, graph, scratch, published, proc, res, crashes, recorded, df,
                 env>>

\* ---- InitialSyncTask.execute / DumpFile.ingest / DumpFile.ingestByChunks ----
\* await this.updateStatus(STATUS_BUSY); this.ingest() starts the download and
\* returns: execute ends here, the rest runs in the handlers of the streams
ExecBusy ==
  /\ initialSync.exec.pc = "busy"
  /\ jobsGraph' = [jobsGraph EXCEPT
                     !.tasks = updateStatus(@, initialSync.exec.task, STATUS_BUSY)]
  /\ initialSync' = [initialSync EXCEPT !.exec.pc = "download"]
  /\ UNCHANGED <<store, graph, scratch, published, proc, boot, res, crashes, recorded,
                 df, env>>

\* the write stream emits 'finish' (ingestByChunks is called), or the request
\* emits 'error': onFinishCallback(this, false, e), whose `throw e` rejects a
\* promise nobody holds
ExecDownload ==
  /\ initialSync.exec.pc = "download"
  /\ \E ok \in BOOLEAN :
       initialSync' = [initialSync EXCEPT !.exec.pc = IF ok THEN "load" ELSE "rejected"]
  /\ UNCHANGED <<store, graph, scratch, published, proc, boot, res, crashes, recorded,
                 df, env, jobsGraph>>

\* fs.readFileSync and await insertTriples(triples); when one of them throws, the
\* catch block awaits onFinishCallback(this, false, e), whose `throw e` rejects the
\* promise of ingestByChunks, which nobody holds
ExecLoad ==
  /\ initialSync.exec.pc = "load"
  /\ \E ok \in BOOLEAN :
       initialSync' =
         IF ok THEN [initialSync EXCEPT !.exec.pc = "callback", !.loaded = TRUE]
         ELSE [initialSync EXCEPT !.exec.pc = "rejected"]
  /\ UNCHANGED <<store, graph, scratch, published, proc, boot, res, crashes, recorded,
                 df, env, jobsGraph>>

\* await onFinishCallback(this, true): await this.updateStatus(STATUS_SUCCESS);
\* then fs.unlink
ExecCallback ==
  /\ initialSync.exec.pc = "callback"
  /\ jobsGraph' = [jobsGraph EXCEPT
                     !.tasks = updateStatus(@, initialSync.exec.task, STATUS_SUCCESS)]
  /\ initialSync' = [initialSync EXCEPT !.exec.pc = "done"]
  /\ UNCHANGED <<store, graph, scratch, published, proc, boot, res, crashes, recorded,
                 df, env>>

\* ---- POST /initial-sync-jobs and DELETE /initial-sync-jobs ----
\* the requests to /initial-sync-jobs are sent one at a time, to a service that
\* is up and runs neither an initial sync nor the timer of the ingestion cycles
Quiet ==
  /\ boot.pc \in {"failed", "disabled"}
  /\ initialSync.run.pc \in {"idle", "returned"}
  /\ initialSync.exec.pc \in {"none", "done", "rejected"}
  /\ initialSync.clean.pc = "idle"

\* runInitialSync() (not awaited)
PostInitialSyncJobs ==
  /\ Quiet
  /\ jobsGraph.made < MaxJobs
  /\ initialSync' = [initialSync EXCEPT !.run = StartRun("request")]
  /\ UNCHANGED <<store, graph, scratch, published, proc, boot, res, crashes, recorded,
                 df, env, jobsGraph>>

\* const jobs = await getJobs(INITIAL_SYNC_JOB_OPERATION)
DeleteInitialSyncJobs ==
  /\ Quiet
  /\ getJobs(jobsGraph) # {}
  /\ initialSync' = [initialSync EXCEPT
                       !.clean = [pc |-> "delete", todo |-> Ascending(getJobs(jobsGraph))]]
  /\ UNCHANGED <<store, graph, scratch, published, proc, boot, res, crashes, recorded,
                 df, env, jobsGraph>>

\* cleanupJobs: `await update(cleanupQuery)` for the next job of the list
CleanupJob ==
  /\ initialSync.clean.pc = "delete"
  /\ jobsGraph' = cleanupJob(jobsGraph, Head(initialSync.clean.todo))
  /\ initialSync' =
       [initialSync EXCEPT
          !.clean = IF Tail(@.todo) = <<>> THEN [pc |-> "idle", todo |-> <<>>]
                    ELSE [pc |-> "delete", todo |-> Tail(@.todo)]]
  /\ UNCHANGED <<store, graph, scratch, published, proc, boot, res, crashes, recorded,
                 df, env>>

\* ---- the service that starts with an initial sync ----
\* what earlier runs of the process can have left in the jobs graph: nothing, a
\* failed initial sync, a successful one, or one interrupted by the end of the
\* process
PreviousRuns ==
  {NoJobs,
   [jobs |-> {[id |-> 1, status |-> STATUS_FAILED]},
    tasks |-> {[id |-> 1, job |-> 1, status |-> STATUS_FAILED]},
    links |-> {<<1, 1>>}, errors |-> <<[message |-> NoDatasetMessage]>>, made |-> 1],
   [jobs |-> {[id |-> 1, status |-> STATUS_SUCCESS]},
    tasks |-> {[id |-> 1, job |-> 1, status |-> STATUS_SUCCESS]},
    links |-> {}, errors |-> <<>>, made |-> 1],
   [jobs |-> {[id |-> 1, status |-> STATUS_BUSY]},
    tasks |-> {[id |-> 1, job |-> 1, status |-> STATUS_BUSY]},
    links |-> {}, errors |-> <<>>, made |-> 1]}

\* the earlier run loaded the dump and inserted its SyncTask
Succeeded(jg) == \E j \in jg.jobs : j.status = STATUS_SUCCESS

\* a SyncTask the end of the process left ongoing
StaleTask ==
  [created |-> 0, status |-> {TASK_ONGOING_STATUS}, deltaUntil |-> {},
   hist |-> <<TASK_NOT_STARTED_STATUS, TASK_ONGOING_STATUS>>]

Configurations ==
  [DISABLE_INITIAL_SYNC : BOOLEAN, DISABLE_DELTA_INGEST : BOOLEAN,
   START_FROM_DELTA_TIMESTAMP : {None, StartFrom}, statusLabels : StatusLabels]

InitBoot ==
  /\ graph = {}
  /\ scratch = {}
  /\ published = 0
  /\ proc = [r \in Slots |-> Idle]
  /\ boot = [pc |-> "getJob", task |-> 0]
  /\ res = 0
  /\ crashes = 0
  /\ recorded = None
  /\ df = NoFile
  /\ env \in Configurations
  /\ jobsGraph \in PreviousRuns
  /\ initialSync = [NoInitialSync EXCEPT !.loaded = Succeeded(jobsGraph)]
  /\ \E stale \in BOOLEAN :
       store = (IF Succeeded(jobsGraph)
                THEN <<createSyncTask(DumpIssued, TASK_SUCCESS_STATUS, 0)>> ELSE <<>>)
               \o (IF stale THEN <<StaleTask>> ELSE <<>>)

\* the ingestion cycles are those of the timer, one at a time; the producer has
\* published no delta file
NextBoot ==
  \/ BootGetJob
  \/ BootStoreError
  \/ BootQuery
  \/ BootSetFailed
  \/ RunCreateJob
  \/ RunScheduleTask
  \/ RunGetDump
  \/ RunCreateSyncTask
  \/ RunJobSuccess
  \/ RunCloseTask
  \/ RunStoreError
  \/ RunCloseJob
  \/ ExecBusy
  \/ ExecDownload
  \/ ExecLoad
  \/ ExecCallback
  \/ PostInitialSyncJobs
  \/ DeleteInitialSyncJobs
  \/ CleanupJob
  \/ \E r \in {1} :
        \/ triggerIngest(r) \/ SchedQuery(r) \/ SchedInsert(r) \/ GetRunning(r)
        \/ GetNext(r) \/ GetLatest(r) \/ ListFiles(r)
        \/ StatusDelete(r) \/ StatusInsert(r)
        \/ WatermarkDelete(r) \/ WatermarkInsert(r)

BootSteps == BootGetJob \/ BootStoreError \/ BootQuery \/ BootSetFailed

RunSteps ==
  \/ RunCreateJob \/ RunScheduleTask \/ RunGetDump \/ RunCreateSyncTask
  \/ RunJobSuccess \/ RunCloseTask \/ RunStoreError \/ RunCloseJob

ExecSteps == ExecBusy \/ ExecDownload \/ ExecLoad \/ ExecCallback

CycleSteps ==
  \/ triggerIngest(1) \/ SchedQuery(1) \/ SchedInsert(1) \/ GetRunning(1)
  \/ GetNext(1) \/ GetLatest(1) \/ ListFiles(1)
  \/ StatusDelete(1) \/ StatusInsert(1)
  \/ WatermarkDelete(1) \/ WatermarkInsert(1)

\* every awaited query, update, listing and download eventually ends and the
\* timer keeps firing (each of the four is one sequence of steps); the requests
\* to /initial-sync-jobs are never forced
FairBoot ==
  /\ WF_vars(BootSteps)
  /\ WF_vars(RunSteps)
  /\ WF_vars(ExecSteps)
  /\ WF_vars(CleanupJob)
  /\ WF_vars(CycleSteps)

SpecBoot == InitBoot /\ [][NextBoot]_vars /\ FairBoot

\* ---- one DeltaFile, batch by batch (delta-file.js) ----
\* config.js: BATCH_SIZE = parseInt(process.env.BATCH_SIZE) || 100
DEFAULT_BATCH_SIZE == 100

\* the configured batch sizes followed here
BatchSizes == {1, 2, DEFAULT_BATCH_SIZE}

\* a list of n triples (a triple is a number): the first n
Triples(n) == [i \in 1..n |-> i]

\* a list of m triples among the first MaxTriples: the last m, from the last on
LastTriples(m) == [i \in 1..m |-> MaxTriples + 1 - i]

\* the changesets a delta file can hold: {inserts, deletes}; the two lists are
\* disjoint, overlap, or hold the same triples
ChangeSets ==
  {[inserts |-> Triples(n), deletes |-> LastTriples(m)] : n, m \in 0..MaxTriples}

\* the contents the target graph can have before the file is consumed
GraphContents == SUBSET (1..MaxTriples)

\* two full batches and a half of the default size
LargeCount == 2 * DEFAULT_BATCH_SIZE + DEFAULT_BATCH_SIZE \div 2

\* the parsed contents of the delta files followed here
FileContents ==
  UNION {[1..n -> ChangeSets] : n \in 0..MaxChangeSets}
    \cup {<<[inserts |-> Triples(LargeCount), deletes |-> <<>>]>>}

\* the file of LargeCount triples, which is followed with the default batch
\* size only
IsLarge(cs) == \E k \in 1..Len(cs) : Len(cs[k].inserts) > MaxTriples

\* triples.slice(i, i + BATCH_SIZE), i counted from 0
Slice(triples, i, B) ==
  SubSeq(triples, i + 1, IF i + B < Len(triples) THEN i + B ELSE Len(triples))

\* a loop that advances by one more than the batch
NextOffsetSkipping(i, B) == i + B + 1

\* insertTriples / deleteTriples: i += BATCH_SIZE
NextOffset(i, B) == i + B

\* the triples of changeset k that phase ph writes
PhaseTriples(cs, k, ph) == IF ph = "INSERT" THEN cs[k].inserts ELSE cs[k].deletes

\* a loop over the changesets that calls insertTriples only
RECURSIVE SeekSkippingDeletes(_, _, _, _)
SeekSkippingDeletes(cs, k, ph, i) ==
  IF k > Len(cs) THEN [k |-> k, ph |-> "INSERT", i |-> 0]
  ELSE IF ph = "INSERT" /\ i < Len(cs[k].inserts) THEN [k |-> k, ph |-> ph, i |-> i]
  ELSE SeekSkippingDeletes(cs, k + 1, "INSERT", 0)

\* the position of the next awaited update from (k, ph, i) on: the for loops of
\* insertTriples and deleteTriples and the loop over the changesets run on without
\* an await while a list is exhausted; k = Len(cs) + 1 when no update is left
RECURSIVE Seek(_, _, _, _)
Seek(cs, k, ph, i) ==
  IF k > Len(cs) THEN [k |-> k, ph |-> "INSERT", i |-> 0]
  ELSE IF i < Len(PhaseTriples(cs, k, ph)) THEN [k |-> k, ph |-> ph, i |-> i]
  ELSE IF ph = "INSERT" THEN Seek(cs, k, "DELETE", 0)
  ELSE Seek(cs, k + 1, "INSERT", 0)

\* DeltaFile.consume has created the write stream on tmpFilepath and started the
\* request
\* (target: the triples of the target graph; initial and after: its content
\* before the file and after each changeset, a history)
NewDeltaFile(cs, B, g) ==
  [pc |-> "download", changeSets |-> cs, batchSize |-> B,
   k |-> 1, ph |-> "INSERT", i |-> 0,
   parsed |-> FALSE, updates |-> <<>>, callbacks |-> <<>>,
   removed |-> FALSE, failure |-> "none",
   target |-> g, initial |-> g, after |-> <<>>]

\* the elements of a list
Range(seq) == {seq[j] : j \in 1..Len(seq)}

\* a store in which the insert of a triple that is present removes it
ApplyBatchToggling(g, kind, batch) ==
  IF kind = "INSERT" THEN (g \ Range(batch)) \cup (Range(batch) \ g)
  ELSE g \ Range(batch)

\* the effect of one update on the target graph: INSERT DATA adds the triples
\* of the batch that are absent, DELETE DATA removes those that are present
ApplyBatch(g, kind, batch) ==
  IF kind = "INSERT" THEN g \cup Range(batch) ELSE g \ Range(batch)

\* ingest moves to the position pos: the next update, or past the last changeset,
\* where it calls `await onFinishCallback(this, true)`
MoveTo(d, pos) ==
  LET d1 == [d EXCEPT !.k = pos.k, !.ph = pos.ph, !.i = pos.i,
                      !.after = @ \o [j \in 1..(pos.k - d.k) |-> d.target]]
  IN IF pos.k > Len(d.changeSets)
     THEN [d1 EXCEPT !.pc = "callback", !.callbacks = Append(@, TRUE)]
     ELSE [d1 EXCEPT !.pc = "update"]

\* a download error that lets the pipeline go on to ingest
DownloadErrorIgnored(d) ==
  [d EXCEPT !.pc = "read", !.failure = "download", !.callbacks = Append(@, FALSE)]

\* request.on('error'): onFinishCallback(this, false); the write stream never
\* finishes, so ingest is not called
DownloadError(d) ==
  [d EXCEPT !.pc = "done", !.failure = "download", !.callbacks = Append(@, FALSE)]

\* a catch block that also removes the scratch file
IngestFailedCleaningUp(d, why) ==
  [d EXCEPT !.pc = "done", !.failure = why, !.callbacks = Append(@, FALSE),
            !.removed = TRUE]

\* DeltaFile.ingest, catch (e): onFinishCallback(this, false)
IngestFailed(d, why) ==
  [d EXCEPT !.pc = "done", !.failure = why, !.callbacks = Append(@, FALSE)]

\* a loop that goes on with the next batch when an update has thrown
WriteFailedSkipping(d) ==
  MoveTo([d EXCEPT !.failure = "write"],
         Seek(d.changeSets, d.k, d.ph, NextOffset(d.i, d.batchSize)))

\* `await update(...)` throws in insertTriples / deleteTriples: the for loop is
\* left, the error reaches the try block of ingest
WriteFailed(d) == IngestFailed(d, "write")

InitFile ==
  /\ store = <<>>
  /\ graph = {}
  /\ scratch = {}
  /\ published = 0
  /\ proc = [r \in Slots |-> Idle]
  /\ boot = [pc |-> "query", task |-> 0]
  /\ res = 0
  /\ crashes = 0
  /\ recorded = None
  /\ env = NoEnv
  /\ jobsGraph = NoJobs
  /\ initialSync = NoInitialSync
  /\ \E cs \in FileContents : \E B \in BatchSizes : \E g \in GraphContents :
       /\ IsLarge(cs) => B = DEFAULT_BATCH_SIZE
       /\ df = NewDeltaFile(cs, B, g)

\* the variables of the service, which one file's consumption leaves alone
service ==
  <<store, graph, scratch, published, proc, boot, res, crashes, recorded,
    env, jobsGraph, initialSync>>

\* the request emits 'error'
FileDownloadError ==
  /\ df.pc = "download"
  /\ df' = DownloadError(df)
  /\ UNCHANGED service

\* the write stream emits 'finish': ingest is called
FileDownloadFinish ==
  /\ df.pc = "download"
  /\ df' = [df EXCEPT !.pc = "read"]
  /\ UNCHANGED service

\* const changeSets = await fs.readJson(tmpFilepath): it throws when the content
\* is not JSON; otherwise the loop over the changesets starts
FileReadJson ==
  /\ df.pc = "read"
  /\ \E ok \in BOOLEAN :
       df' = IF ok
             THEN MoveTo([df EXCEPT !.parsed = TRUE], Seek(df.changeSets, 1, "INSERT", 0))
             ELSE IngestFailed([df EXCEPT !.parsed = TRUE], "parse")
  /\ UNCHANGED service

\* one `await update(INSERT DATA ...)` of insertTriples or `await update(DELETE
\* DATA ...)` of deleteTriples, with the batch triples.slice(i, i + BATCH_SIZE)
FileUpdate ==
  /\ df.pc = "update"
  /\ \E ok \in BOOLEAN :
       df' = IF ok
             THEN LET batch == Slice(PhaseTriples(df.changeSets, df.k, df.ph), df.i,
                                     df.batchSize)
                      d1 == [df EXCEPT !.updates =
                               Append(@, [kind |-> df.ph, k |-> df.k, batch |-> batch]),
                                       !.target = ApplyBatch(@, df.ph, batch)]
                  IN MoveTo(d1, Seek(df.changeSets, df.k, df.ph,
                                     NextOffset(df.i, df.batchSize)))
             ELSE WriteFailed(df)
  /\ UNCHANGED service

\* `await onFinishCallback(this, true)` returns, or the callback throws and the
\* catch block calls it again with failure
FileCallback ==
  /\ df.pc = "callback"
  /\ \E ok \in BOOLEAN :
       df' = IF ok THEN [df EXCEPT !.pc = "unlink"] ELSE IngestFailed(df, "callback")
  /\ UNCHANGED service

\* `await fs.unlink(tmpFilepath)`
FileUnlink ==
  /\ df.pc = "unlink"
  /\ \E ok \in BOOLEAN :
       df' = IF ok THEN [df EXCEPT !.pc = "done", !.removed = TRUE]
             ELSE IngestFailed(df, "unlink")
  /\ UNCHANGED service

NextFile ==
  \/ FileDownloadError
  \/ FileDownloadFinish
  \/ FileReadJson
  \/ FileUpdate
  \/ FileCallback
  \/ FileUnlink

SpecFile == InitFile /\ [][NextFile]_vars

\* ---- derived state used by the properties ----
\* the delta files whose changesets have all been applied to the target graph
FullyApplied == {f \in 1..MaxFiles : <<f, "ins">> \in graph /\ <<f, "del">> \in graph}

\* the persisted watermark: the latest ext:deltaUntil of any task
Watermark == getLatestDeltaTimestamp(store)

\* the tasks whose persisted status is ongoing
Ongoing == {t \in DOMAIN store : TASK_ONGOING_STATUS \in store[t].status}

\* the in-memory SyncTask of the slot is being executed (execute() was called)
Executing(p) ==
  /\ p.pc \in {"stDel", "stIns", "wmDel", "wmIns", "download", "ins", "del", "unlink"}
  /\ p.ret \notin {"closeFailure", "closeEnd"}

\* ---- C1 ----
\* C1: in every reachable state the persisted watermark equals the creation
\* timestamp of the most recent delta file whose changesets have all been applied.
CE_C1 == FullyApplied # {} => Watermark = Created(SeqMax(FullyApplied))

\* ---- C2 ----
\* C2: at most one SyncTask has persisted status ongoing at any instant.
CE_C2 == Cardinality(Ongoing) <= 1

\* ---- C4 ----
\* C4: the persisted watermark never decreases from one state to the next.
CE_C4 ==
  [][(Watermark # None /\ Watermark' # None) => Watermark' >= Watermark]_vars

\* ---- C3 ----
IsAscending(fs) == \A i \in 1..Len(fs) : \A j \in 1..Len(fs) : i < j => Created(fs[i]) < Created(fs[j])

IsPrefix(a, b) == Len(a) <= Len(b) /\ \A i \in 1..Len(a) : a[i] = b[i]

\* C3: within one SyncTask the pending files are in ascending creation order and
\* are consumed in that order, one at a time: the files whose download was started
\* are a prefix of the pending files, the file in the pipeline is the last one
\* started, and a file is started only when every file before it was consumed
\* completely (download, parse, all writes).
Thm_C3 ==
  \A r \in Slots :
    LET p == proc[r]
    IN /\ IsAscending(p.files)
       /\ IsPrefix(p.started, p.files)
       /\ IsPrefix(p.completed, p.started)
       /\ Len(p.started) <= Len(p.completed) + 1
       /\ p.cur = Len(p.started)

\* the second file of a task is being applied, after the first was consumed
Wit_C3 ==
  \E r \in Slots :
    /\ proc[r].pc = "del"
    /\ Len(proc[r].started) = 2
    /\ Len(proc[r].completed) = 1

\* ---- C5 ----
\* the tasks left ongoing by a process that is gone: no execution of this
\* process works on them
StaleOngoing ==
  {t \in Ongoing : \A r \in Slots : ~(Executing(proc[r]) /\ proc[r].task = t)}

\* C5: a SyncTask persisted as ongoing when the process starts is set to failed
\* before any new SyncTask begins executing (no execution runs while a task left
\* ongoing by the previous process is still ongoing), and the step that sets it
\* to failed leaves every persisted watermark unchanged.
Thm_C5 ==
  /\ []((\E r \in Slots : Executing(proc[r])) => StaleOngoing = {})
  /\ [][(boot.pc = "setFailed" /\ boot'.pc = "done") =>
          /\ store'[boot.task].status = {TASK_FAILED_STATUS}
          /\ \A t \in DOMAIN store : store'[t].deltaUntil = store[t].deltaUntil]_vars

\* after a crash the recovery has set the task left ongoing to failed, and a new
\* task is being executed
Wit_C5 ==
  /\ crashes = 1
  /\ boot.pc = "done"
  /\ boot.task # 0
  /\ store[boot.task].status = {TASK_FAILED_STATUS}
  /\ \E r \in Slots : Executing(proc[r]) /\ proc[r].task # boot.task

\* ---- C6 ----
\* C6: when startup recovery has finished, no SyncTask has status ongoing, however
\* many tasks the previous process left ongoing (no request of the new process is
\* in progress, so every ongoing task was left by an earlier process).
CE_C6 ==
  [][(boot.pc # "done" /\ boot'.pc = "done" /\ \A r \in Slots : proc[r].pc = "idle")
       => Ongoing' = {}]_vars

\* ---- C7 ----
\* C7: after a crash the next task's since is the creation timestamp of the last
\* fully applied file: at most the in-flight file is lost (since is not below the
\* last file whose completion was recorded), and no producer file is skipped
\* (every file up to since that was published after the first task was created
\* has been applied completely).
CE_C7 ==
  [][\A r \in Slots :
       (crashes >= 1 /\ proc[r].pc = "getLatest" /\ proc'[r].pc = "listFiles") =>
         /\ proc'[r].since >= recorded
         /\ \A f \in 1..published :
              (f <= proc'[r].since /\ f > store[1].created) => f \in FullyApplied]_vars

\* ---- C8 ----
\* the step that ends the execution of slot r
Finishing(r) ==
  /\ Executing(proc[r])
  /\ proc'[r].pc = "idle"
  /\ crashes' = crashes

\* C8: when fk is the first pending file whose consumption fails, the task ends
\* with status failed, the persisted watermark (the value the next task reads) is
\* the creation timestamp of f(k-1) (the start watermark when k = 1), the files
\* before fk were applied and no file after fk was downloaded or applied by this
\* task.
CE_C8 ==
  [][\A r \in Slots :
       (Finishing(r) /\ proc[r].failedAt > 0) =>
         LET p == proc[r]
             k == p.failedAt
         IN /\ p.status = TASK_FAILED_STATUS
            /\ TASK_FAILED_STATUS \in store'[p.task].status
            /\ getLatestDeltaTimestamp(store') =
                 IF k = 1 THEN p.since ELSE Created(p.files[k - 1])
            /\ p.started = SubSeq(p.files, 1, k)
            /\ p.completed = SubSeq(p.files, 1, k - 1)]_vars

\* ---- C9 ----
\* C9: POST /ingest answers 409 when a SyncTask is ongoing at its check, and that
\* request then ends without touching the store, the graph or any other request;
\* it answers 200 when no not-started task is found and 202 when it has called
\* execute; no other step sends one of these answers.
Thm_C9 ==
  [][crashes' = crashes =>
      /\ \A r \in Slots :
           /\ (proc[r].pc = "getRunning" /\ proc'[r] # proc[r]) =>
                IF Ongoing # {}
                THEN /\ res' = 409
                     /\ proc'[r] = Idle
                     /\ store' = store /\ graph' = graph /\ scratch' = scratch
                     /\ \A q \in Slots \ {r} : proc'[q] = proc[q]
                ELSE proc'[r].pc = "getNext" /\ res' = res
           /\ (proc[r].pc = "getNext" /\ proc'[r] # proc[r]) =>
                IF \E t \in DOMAIN store : TASK_NOT_STARTED_STATUS \in store[t].status
                THEN proc'[r].pc = "getLatest" /\ res' = res
                ELSE proc'[r] = Idle /\ res' = 200
           /\ (proc[r].pc = "listFiles" /\ proc'[r] # proc[r]) =>
                \/ Executing(proc'[r]) /\ res' = 202
                \/ ~Executing(proc'[r]) /\ res' = res
      /\ res' \in {200, 202, 409} /\ res' # res =>
           \E r \in Slots : proc[r].pc \in {"getRunning", "getNext", "listFiles"}
                            /\ proc'[r] # proc[r]]_vars

\* a request was answered 409 while a task is ongoing and being executed
Wit_C9 ==
  /\ res = 409
  /\ \E r \in Slots : Executing(proc[r]) /\ proc[r].task \in Ongoing

\* ---- C10 ----
\* C10: the persisted status of a SyncTask only moves along
\* notStarted -> ongoing -> {success, failed}.
CE_C10 ==
  \A t \in DOMAIN store :
    store[t].hist \in
      {<<TASK_NOT_STARTED_STATUS>>,
       <<TASK_NOT_STARTED_STATUS, TASK_ONGOING_STATUS>>,
       <<TASK_NOT_STARTED_STATUS, TASK_ONGOING_STATUS, TASK_SUCCESS_STATUS>>,
       <<TASK_NOT_STARTED_STATUS, TASK_ONGOING_STATUS, TASK_FAILED_STATUS>>}

\* ---- C11 ----
\* the step of slot r, which is executing a task without pending files
EmptyStep(r) ==
  /\ Executing(proc[r])
  /\ totalFiles(proc[r]) = 0
  /\ proc'[r] # proc[r]
  /\ crashes' = crashes

\* C11: executing a SyncTask whose pending file list is empty persists status
\* ongoing, then persists the watermark with the value the task already had (its
\* since), then persists status success; it downloads and applies nothing.
Thm_C11 ==
  [][\A r \in Slots :
       EmptyStep(r) =>
         LET p == proc[r]
             q == proc'[r]
             t == proc[r].task
         IN /\ graph' = graph /\ scratch' = scratch
            /\ q.started = <<>> /\ q.pc \notin {"download", "ins", "del", "unlink"}
            /\ CASE p.pc = "stDel" ->
                      /\ p.ret \in {"executeBody", "executeEnd"}
                      /\ store'[t].status = {} /\ q.pc = "stIns" /\ q.ret = p.ret
                 [] p.pc = "stIns" /\ p.ret = "executeBody" ->
                      /\ TASK_ONGOING_STATUS \in store'[t].status
                      /\ q.pc = "wmDel"
                 [] p.pc = "wmDel" ->
                      /\ store'[t].deltaUntil = {} /\ q.pc = "wmIns"
                 [] p.pc = "wmIns" ->
                      /\ p.latestDeltaMs = p.since
                      /\ store'[t].deltaUntil = store[t].deltaUntil \cup {p.since}
                      /\ store'[t].status = store[t].status
                      /\ q.pc = "stDel" /\ q.ret = "executeEnd"
                      /\ q.status = TASK_SUCCESS_STATUS
                 [] p.pc = "stIns" /\ p.ret = "executeEnd" ->
                      /\ TASK_SUCCESS_STATUS \in store'[t].status
                      /\ store'[t].deltaUntil = store[t].deltaUntil
                      /\ q = Idle
                 [] OTHER -> FALSE]_vars

\* a task without pending files is about to persist success, its watermark
\* persisted with the value of its since
Wit_C11 ==
  \E r \in Slots :
    /\ totalFiles(proc[r]) = 0
    /\ proc[r].pc = "stIns" /\ proc[r].ret = "executeEnd"
    /\ store[proc[r].task].deltaUntil = {proc[r].since}
    /\ graph = {}

\* ---- C12 ----
\* the step that ends an execution in which every pending file was consumed
\* successfully, in a process that never crashed and whose startup recovery found
\* no task to correct
AllConsumed(r) ==
  /\ Finishing(r)
  /\ crashes = 0 /\ boot = [pc |-> "done", task |-> 0]
  /\ totalFiles(proc[r]) > 0
  /\ proc[r].completed = proc[r].files
  /\ proc[r].failedAt = 0

\* C12: when every pending file f1..fn of a SyncTask is consumed successfully, the
\* task ends with status success, its watermark is fn's creation timestamp and
\* the scratch file of every one of the n files has been removed.
CE_C12 ==
  [][\A r \in Slots :
       AllConsumed(r) =>
         LET p == proc[r]
             n == totalFiles(proc[r])
         IN /\ p.status = TASK_SUCCESS_STATUS
            /\ store'[p.task].status = {TASK_SUCCESS_STATUS}
            /\ store'[p.task].deltaUntil = {Created(p.files[n])}
            /\ \A i \in 1..n : p.files[i] \notin scratch']_vars

\* ---- C13 ----
\* the step in which slot r starts the download of the file that follows a
\* successfully consumed one
StartsNextFile(r) ==
  /\ Len(proc[r].started) >= 1
  /\ Len(proc'[r].started) = Len(proc[r].started) + 1

\* the step in which slot r, every file handled without failure, turns to
\* persisting the terminal status
TurnsToSuccess(r) ==
  /\ proc'[r].pc = "stDel" /\ proc'[r].ret = "cbReturn"
  /\ proc'[r].status = TASK_SUCCESS_STATUS
  /\ ~(proc[r].pc = "stDel" /\ proc[r].ret = "cbReturn")

\* C13: after file i completed successfully with a creation timestamp above the
\* current watermark, the new watermark is persisted before the download of file
\* i+1 starts and before the terminal status is persisted: the task moves on in
\* the very step that completes the INSERT of file i's timestamp.
Thm_C13 ==
  [][\A r \in Slots :
       (crashes' = crashes /\ (StartsNextFile(r) \/ TurnsToSuccess(r))) =>
         LET p == proc[r]
             t == proc[r].task
             f == proc'[r].completed[Len(proc'[r].completed)]
         IN /\ proc'[r].completed # <<>>
            /\ Created(f) > p.since
            /\ p.pc = "wmIns" /\ p.ret = "cbContinue"
            /\ p.latestDeltaMs = Created(f)
            /\ Created(f) \in store'[t].deltaUntil]_vars

\* the second file is being downloaded and the first file's timestamp is the
\* task's persisted watermark
Wit_C13 ==
  \E r \in Slots :
    /\ proc[r].pc = "download"
    /\ Len(proc[r].started) = 2
    /\ store[proc[r].task].deltaUntil = {Created(proc[r].files[1])}

\* ---- C14 ----
\* some SyncTask stopped on a failed file: it was ongoing and persisted failed
\* itself (no crash happened and the startup recovery corrected no task)
StoppedOnFailedFile ==
  /\ crashes = 0 /\ boot.task = 0
  /\ \E t \in DOMAIN store :
       store[t].hist = <<TASK_NOT_STARTED_STATUS, TASK_ONGOING_STATUS, TASK_FAILED_STATUS>>

\* C14: when a SyncTask stopped on a failed file, the next SyncTask uses the
\* persisted watermark as its since, so the failed file and every later file
\* (every producer file that is not completely applied) are requested again.
CE_C14 ==
  [][\A r \in Slots :
       (StoppedOnFailedFile /\ proc[r].pc = "getLatest" /\ proc'[r].pc = "listFiles") =>
         /\ Watermark # None
         /\ proc'[r].since = Watermark
         /\ \A f \in 1..published :
              (f \notin FullyApplied /\ Created(f) > store[1].created)
                 => Created(f) > proc'[r].since]_vars

\* ---- C15 ----
NotStarted == TasksWithStatus(store, TASK_NOT_STARTED_STATUS)

\* C15 (what a cycle does): a cycle that finds a SyncTask ongoing ends with 409
\* without starting work and leaves the store, hence the scheduled not-started
\* task, as it is; a cycle inserts a task only after finding none not started; and
\* the task a cycle executes is the earliest scheduled not-started task.
Safe_C15 ==
  [][crashes' = crashes =>
       \A r \in Slots :
         /\ (proc[r].pc = "getRunning" /\ proc'[r] # proc[r] /\ Ongoing # {}) =>
              /\ proc'[r] = Idle /\ store' = store
              /\ NotStarted' = NotStarted
         /\ (proc[r].pc = "schedQuery" /\ proc'[r].pc = "schedInsert") => NotStarted = {}
         /\ (proc[r].pc = "getNext" /\ proc'[r].pc = "getLatest") =>
              /\ proc'[r].task \in NotStarted
              /\ \A u \in NotStarted : store[proc'[r].task].created <= store[u].created]_vars

\* C15 (deferral): provided the store is again and again without an ongoing task,
\* a task that is not started is eventually taken up by a cycle (its status
\* leaves notStarted).
Live_C15 ==
  \A t \in 1..MaxTasks :
    []<>(Ongoing = {}) =>
      ((t \in NotStarted) ~> (t \in DOMAIN store /\ t \notin NotStarted))

\* C15: an ingestion cycle that finds a SyncTask ongoing ends without starting
\* work and leaves the scheduled notStarted task in place; that same task is
\* executed by a later cycle once the ongoing task has reached a terminal status.
Thm_C15 == Safe_C15 /\ Live_C15

\* a cycle was answered 409 and left task 2 not started; task 1 has since reached
\* a terminal status and a later cycle is executing task 2
Wit_C15 ==
  /\ res = 409
  /\ store[1].status \in {{TASK_SUCCESS_STATUS}, {TASK_FAILED_STATUS}}
  /\ \E r \in Slots : Executing(proc[r]) /\ proc[r].task = 2

\* ---- C16 ----
\* C16: an ingestion cycle creates a new SyncTask only when no SyncTask with
\* status notStarted exists, so at most one SyncTask has status notStarted at any
\* instant.
CE_C16 == Cardinality(TasksWithStatus(store, TASK_NOT_STARTED_STATUS)) <= 1

\* ---- one delta file: what the log of updates and callbacks shows ----
\* the batches written so far, in order, for phase kind of changeset k, among
\* the first n updates
BatchesOf(k, kind, n) ==
  LET Test(u) == u.k = k /\ u.kind = kind
  IN SelectSeq(SubSeq(df.updates, 1, n), Test)

\* the concatenation of the batches of a sequence of updates
RECURSIVE Flatten(_)
Flatten(us) == IF us = <<>> THEN <<>> ELSE Head(us).batch \o Flatten(Tail(us))

\* every triple of phase kind of changeset k is written by the first n updates
Written(k, kind, n) ==
  Flatten(BatchesOf(k, kind, n)) = PhaseTriples(df.changeSets, k, kind)

\* the two statement kinds a changeset is written with
Phases == {"INSERT", "DELETE"}

\* the whole file is written
FullyWritten ==
  \A k \in 1..Len(df.changeSets) : \A kind \in Phases :
    Written(k, kind, Len(df.updates))

\* C17: a delta file's changesets are applied strictly in file order: an update
\* for changeset k is issued only when every earlier changeset is written in
\* full, a delete batch of changeset k only when all the inserts of k are
\* written; and the callback reports success only when the whole file, the
\* deletes of the last changeset included, is written.
Thm_C17 ==
  df.pc # "none" =>
    /\ \A a \in 1..Len(df.updates) :
         LET u == df.updates[a]
         IN /\ \A j \in 1..(u.k - 1) : \A kind \in Phases : Written(j, kind, a - 1)
            /\ u.kind = "DELETE" => Written(u.k, "INSERT", a - 1)
            /\ \A b \in 1..(a - 1) :
                 /\ df.updates[b].k <= u.k
                 /\ (df.updates[b].k = u.k /\ df.updates[b].kind = "DELETE")
                      => u.kind = "DELETE"
    /\ \A c \in 1..Len(df.callbacks) : df.callbacks[c] => FullyWritten

\* a file of two changesets with inserts and deletes in several batches each
\* is consumed and the callback reports success
Wit_C17 ==
  /\ df.pc = "unlink"
  /\ df.callbacks = <<TRUE>>
  /\ Len(df.changeSets) = MaxChangeSets
  /\ df.batchSize < MaxTriples
  /\ \A k \in 1..Len(df.changeSets) :
       /\ Len(df.changeSets[k].inserts) = MaxTriples
       /\ Len(df.changeSets[k].deletes) = MaxTriples

\* C18: when the download fails (the request emits 'error') the callback is
\* invoked once, with failure, and nothing more happens for the file: the
\* scratch file is not parsed and no update is sent to the store.
Thm_C18 ==
  (df.pc # "none" /\ df.failure = "download") =>
    /\ df.pc = "done"
    /\ ~df.parsed
    /\ df.updates = <<>>
    /\ df.callbacks = <<FALSE>>
    /\ ~df.removed

\* the download of a file that holds changesets has failed
Wit_C18 ==
  /\ df.pc = "done"
  /\ df.failure = "download"
  /\ df.callbacks = <<FALSE>>
  /\ df.changeSets # <<>>
  /\ df.changeSets[1].inserts # <<>>

\* what holds once readJson or an update has thrown
FailedIngest ==
  (df.pc # "none" /\ df.failure \in {"parse", "write"}) =>
    /\ df.pc = "done"
    /\ df.callbacks = <<FALSE>>
    /\ ~df.removed
    /\ df.failure = "parse" => df.updates = <<>>
    /\ \A a \in 1..Len(df.updates) : df.updates[a].k <= df.k
    /\ \A j \in (df.k + 1)..Len(df.changeSets) : \A kind \in Phases :
         BatchesOf(j, kind, Len(df.updates)) = <<>>

\* what holds once the scratch file is removed
RemovedOnlyAfterSuccess ==
  (df.pc # "none" /\ df.removed) =>
    /\ df.failure = "none"
    /\ df.callbacks = <<TRUE>>
    /\ FullyWritten

\* C19: when readJson or an update throws, the file's consumption ends there:
\* no later update is sent (so the remaining changesets are not applied), the
\* callback is invoked with failure, and the scratch file stays; the scratch
\* file is removed only when the whole file is written and the callback has
\* reported success.
Thm_C19 ==
  /\ [](FailedIngest /\ RemovedOnlyAfterSuccess)
  /\ [][(df.pc # "none" /\ df.failure \in {"parse", "write"}) => df' = df]_vars

\* an update of the first of two changesets has failed after an earlier batch
\* was written, and the second changeset has triples to write
Wit_C19 ==
  /\ df.pc = "done"
  /\ df.failure = "write"
  /\ df.k = 1
  /\ df.updates # <<>>
  /\ Len(df.changeSets) = MaxChangeSets
  /\ df.changeSets[MaxChangeSets].inserts # <<>>
  /\ ~df.removed

\* insertTriples / deleteTriples has returned for phase kind of changeset k
PhaseDone(k, kind) ==
  \/ df.k > k
  \/ df.k = k /\ kind = "INSERT" /\ df.ph = "DELETE"

\* C20: for a list of N triples and batch size B, insertTriples and
\* deleteTriples send exactly ceil(N / B) updates, one at a time, each with at
\* most B triples, and the batches put one after the other are the list; while
\* the loop runs the batches sent so far are a prefix of the list.
Thm_C20 ==
  df.pc # "none" =>
    \A k \in 1..Len(df.changeSets) : \A kind \in Phases :
      LET triples == PhaseTriples(df.changeSets, k, kind)
          N == Len(triples)
          B == df.batchSize
          sent == BatchesOf(k, kind, Len(df.updates))
      IN /\ \A j \in 1..Len(sent) : Len(sent[j].batch) <= B /\ sent[j].batch # <<>>
         /\ IsPrefix(Flatten(sent), triples)
         /\ PhaseDone(k, kind) =>
              /\ Len(sent) = (N + B - 1) \div B
              /\ Flatten(sent) = triples

\* two and a half batches of the default size are written in three updates:
\* two full batches and a half one
Wit_C20 ==
  /\ df.pc = "callback"
  /\ df.batchSize = DEFAULT_BATCH_SIZE
  /\ Len(df.changeSets) = 1
  /\ Len(df.changeSets[1].inserts) = LargeCount
  /\ [j \in 1..Len(df.updates) |-> Len(df.updates[j].batch)]
       = <<DEFAULT_BATCH_SIZE, DEFAULT_BATCH_SIZE, DEFAULT_BATCH_SIZE \div 2>>

\* C21: when the update of a batch throws in insertTriples or deleteTriples, no
\* later batch of that call is sent, the error reaches the caller (ingest's
\* catch block reports the failure), and the batches sent before stay in the
\* store: the triples inserted by them are present, those deleted are absent
\* (nothing is rolled back).
Thm_C21 ==
  (df.pc # "none" /\ df.failure = "write") =>
    LET triples == PhaseTriples(df.changeSets, df.k, df.ph)
        sent == BatchesOf(df.k, df.ph, Len(df.updates))
        before == SubSeq(triples, 1, df.i)
    IN /\ df.pc = "done"
       /\ df.i < Len(triples)
       /\ Flatten(sent) = before
       /\ Len(sent) * df.batchSize = df.i
       /\ df.callbacks = <<FALSE>>
       /\ df.ph = "INSERT" => Range(before) \subseteq df.target
       /\ df.ph = "DELETE" => Range(before) \cap df.target = {}

\* the second of three batches of inserts has failed: the first one is in the
\* store, which did not hold it before, and the third one was not sent
Wit_C21 ==
  /\ df.pc = "done"
  /\ df.failure = "write"
  /\ df.ph = "INSERT"
  /\ df.batchSize = 1
  /\ df.i = 1
  /\ Len(df.changeSets[df.k].inserts) = MaxTriples
  /\ df.initial = {}
  /\ df.target = {df.changeSets[df.k].inserts[1]}
  /\ Len(df.updates) = 1

LoadedTask == {t \in jobsGraph.tasks : t.id = initialSync.exec.task}

\* C23: when the load of the dump has ended, the initial sync task is persisted
\* as success after a load that succeeded, and as failed, with an ErrorRecord
\* attached, after a load whose download, read or write failed.
CE_C23 ==
  \A t \in LoadedTask :
    /\ initialSync.exec.pc = "done" => t.status = STATUS_SUCCESS
    /\ initialSync.exec.pc = "rejected" =>
         /\ t.status = STATUS_FAILED
         /\ \E l \in jobsGraph.links : l[1] = t.id

\* the initial sync task of the run that found no dump
NoDumpTask == {t \in jobsGraph.tasks : t.id = initialSync.run.job}

\* C24: when the producer has no current dump, the initial sync task is never
\* executed and never success or busy; it leaves scheduled with the first step
\* of the failure handling, runInitialSync always returns, and when it has
\* returned the task is failed with an ErrorRecord that tells the cause.
Thm_C24 ==
  /\ [](initialSync.run.noDump =>
          /\ initialSync.exec.task # initialSync.run.job
          /\ \A t \in NoDumpTask :
               /\ t.status \in {STATUS_SCHEDULED, STATUS_FAILED}
               /\ t.status = STATUS_SCHEDULED => initialSync.run.pc = "closeTask"
               /\ initialSync.run.pc = "returned" =>
                    \E l \in jobsGraph.links :
                      /\ l[1] = t.id
                      /\ jobsGraph.errors[l[2]].message = NoDatasetMessage)
  /\ (initialSync.run.noDump ~> initialSync.run.pc = "returned")

\* runInitialSync has returned after it found no dump: task and job are failed
\* and the ErrorRecord of the task is stored
Wit_C24 ==
  /\ initialSync.run.noDump
  /\ initialSync.run.pc = "returned"
  /\ \E t \in NoDumpTask :
       /\ t.status = STATUS_FAILED
       /\ \E l \in jobsGraph.links :
            l[1] = t.id /\ jobsGraph.errors[l[2]].message = NoDatasetMessage
  /\ \E j \in jobsGraph.jobs : j.id = initialSync.run.job /\ j.status = STATUS_FAILED

\* ---- errors of an ingestion cycle ----
\* the error getUnconsumedFiles throws when the listing request fails
ListingError == "listing failed"

\* C25: when the handler of a cycle whose listing failed ends, the selected
\* SyncTask is persisted as failed and an ErrorRecord of the listing failure is
\* stored.
CE_C25 ==
  [][\A r \in {1} :
       (proc[r].ret = "closeEnd" /\ proc[r].pc = "stIns" /\ proc'[r].pc = "idle") =>
         /\ store'[proc[r].task].status = {TASK_FAILED_STATUS}
         /\ \E i \in DOMAIN jobsGraph'.errors :
              jobsGraph'.errors[i].message = ListingError]_vars

\* ---- errors at boot ----
\* C26: an error thrown while the service boots is recorded as an ErrorRecord,
\* and the service goes on: when delta ingest is not disabled, an ingestion
\* cycle is triggered later on.
CE_C26 ==
  /\ [](boot.pc = "failed" =>
          \E i \in DOMAIN jobsGraph.errors : jobsGraph.errors[i].message = BootMessage)
  /\ ((boot.pc = "failed" /\ ~env.DISABLE_DELTA_INGEST) ~> proc[1].pc = "schedQuery")

\* ---- the starting point of a SyncTask ----
\* the SyncTask runInitialSync inserted for the loaded dump is in the store
DumpRecorded ==
  \E t \in DOMAIN store :
    store[t].hist = <<TASK_SUCCESS_STATUS>> /\ store[t].deltaUntil = {DumpIssued}

CE_C28 ==
  \A r \in {1} :
    Executing(proc[r]) => (env.DISABLE_INITIAL_SYNC \/ initialSync.loaded)

\* ---- cleanup of the initial sync jobs ----
JobIds(jg) == {j.id : j \in jg.jobs}

TaskIds(jg) == {t.id : t \in jg.tasks}

\* C29: DELETE /initial-sync-jobs lists every initial sync job; each step of
\* cleanupJobs removes the next job of the list and the tasks that are part of
\* it and leaves the other jobs and tasks, the SyncTasks and the ErrorRecords as
\* they were; when the list is done no listed job and none of their tasks is
\* left; no other step removes a job or a task.
Thm_C29 ==
  [][/\ (initialSync.clean.pc = "idle" /\ initialSync'.clean.pc = "delete") =>
          Range(initialSync'.clean.todo) = JobIds(jobsGraph)
     /\ (initialSync.clean.pc = "delete" /\ initialSync'.clean # initialSync.clean) =>
          LET job == Head(initialSync.clean.todo)
          IN /\ jobsGraph'.jobs = {j \in jobsGraph.jobs : j.id # job}
             /\ jobsGraph'.tasks = {t \in jobsGraph.tasks : t.job # job}
             /\ jobsGraph'.errors = jobsGraph.errors
             /\ store' = store
             /\ initialSync'.clean.pc = "idle" =>
                  jobsGraph'.jobs = {} /\ jobsGraph'.tasks = {}
     /\ (~(JobIds(jobsGraph) \subseteq JobIds(jobsGraph'))
           \/ ~(TaskIds(jobsGraph) \subseteq TaskIds(jobsGraph'))) =>
          (initialSync.clean.pc = "delete" /\ initialSync'.clean # initialSync.clean)
    ]_vars

\* the first of two jobs has been removed with its task; the second job, its
\* task, an ErrorRecord and a SyncTask are still there
Wit_C29 ==
  /\ initialSync.clean.pc = "delete"
  /\ initialSync.clean.todo = <<MaxJobs>>
  /\ JobIds(jobsGraph) = {MaxJobs}
  /\ {t.job : t \in jobsGraph.tasks} = {MaxJobs}
  /\ jobsGraph.errors # <<>>
  /\ store # <<>>

\* ---- the end of a SyncTask ----
\* C30: as long as the process does not crash, a SyncTask whose persisted
\* status is ongoing gets the status success or failed later on.
CE_C30 ==
  \A t \in 1..MaxTasks :
    (t \in Ongoing) ~>
      (crashes > 0 \/ t \in TasksWithStatus(store, TASK_SUCCESS_STATUS)
                   \/ t \in TasksWithStatus(store, TASK_FAILED_STATUS))

\* ---- the callback of consumeNext ----
\* C31: the callback of consumeNext is called once for each file the task has
\* started to consume, so handledFiles is at most the number of files started
\* and at most totalFiles.
CE_C31 ==
  \A r \in Slots :
    /\ 0 <= proc[r].handledFiles
    /\ proc[r].handledFiles <= Len(proc[r].started)
    /\ proc[r].handledFiles <= totalFiles(proc[r])

\* ---- after the end of a SyncTask ----
\* an execution of the task has persisted the status success or failed (the
\* startup callback has not: it sets the task it found ongoing to failed)
TerminalPersisted(t) ==
  /\ t # boot.task
  /\ \E i \in DOMAIN store[t].hist :
       store[t].hist[i] \in {TASK_SUCCESS_STATUS, TASK_FAILED_STATUS}

\* C32: an execution of a SyncTask whose status success or failed has been
\* persisted starts no download, writes nothing to the target graph and writes
\* no watermark.
CE_C32 ==
  [][\A r \in Slots :
       (/\ crashes' = crashes
        /\ proc[r].task \in DOMAIN store
        /\ TerminalPersisted(proc[r].task)) =>
         /\ Len(proc'[r].started) <= Len(proc[r].started)
         /\ ~(proc[r].pc = "ins" /\ proc'[r].pc = "del")
         /\ ~(proc[r].pc = "del" /\ proc'[r].completed # proc[r].completed)
         /\ ~(proc[r].pc \in {"wmDel", "wmIns"} /\ proc'[r] # proc[r])]_vars

\* ---- one execution for a SyncTask ----
\* C33: no two requests execute the same SyncTask: whenever two request slots
\* are executing, their tasks differ.
CE_C33 ==
  \A r \in Slots : \A q \in Slots :
    (r # q /\ Executing(proc[r]) /\ Executing(proc[q])) => proc[r].task # proc[q].task

\* ---- one status and one watermark for a SyncTask ----
\* C34: in every state every SyncTask of the store has exactly one status, and
\* a SyncTask that has a watermark has exactly one watermark value in the next
\* state too (so from its first watermark on it always has exactly one).
CE_C34 ==
  /\ [](\A t \in DOMAIN store :
          /\ Cardinality(store[t].status) = 1
          /\ Cardinality(store[t].deltaUntil) <= 1)
  /\ [][\A t \in DOMAIN store :
          store[t].deltaUntil # {} => Cardinality(store'[t].deltaUntil) = 1]_vars

\* ---- the success of an initial sync job ----
\* the initial sync task of the job runInitialSync is working on
RunTask == {t \in jobsGraph.tasks : t.job = initialSync.run.job}

\* C35: the task of an initial sync job with status success has status success,
\* and so has the task of the job whose runInitialSync has inserted the
\* SyncTask that holds the time the dump was issued.
CE_C35 ==
  /\ \A j \in jobsGraph.jobs :
       j.status = STATUS_SUCCESS =>
         \A t \in jobsGraph.tasks : t.job = j.id => t.status = STATUS_SUCCESS
  /\ initialSync.run.pc = "jobSuccess" => \A t \in RunTask : t.status = STATUS_SUCCESS

====
